---- MODULE Spec2Model ----
\* Krishimitra: the template patch scripts (fix_market_prices.js lines 1-279 and
\* the fetchMarketPrices patch), the enhanced service loaders of the dashboard
\* (fix_market_prices.js lines 281-768) and the mandi views the patch installs.
EXTENDS Integers, Sequences, FiniteSets, TLC

VARIABLES
    \* ---- patch scripts (Node) ----
    file,            \* core/templates/index.html on disk, a sequence of tokens
    content,         \* the script's `content`: the text it read
    functionStart,   \* content.indexOf(start marker)
    functionEnd,     \* content.indexOf(end marker)
    console,         \* what the script logged
    wrote,           \* fs.writeFileSync was called by the last run
    script,          \* the script that ran last
    runs,            \* number of script runs so far
    \* ---- dashboard services (browser) ----
    currentLocation, \* currentLocation / currentLatitude / currentLongitude
    dom,             \* ids of the container elements the page has
    sections,        \* names whose '<name>-content' section the page has
    innerHTML,       \* container id -> what it shows
    active,          \* sections carrying the class 'active'
    inv,             \* loader invocations in the order they were started
    page,            \* position of the page-load sequence
    last,            \* the handler that ran last: its name, its argument and Len(inv) before it
    \* ---- the market-price views of the patched template (browser) ----
    pricesData,      \* what #pricesData shows
    selectedMandi,   \* let selectedMandi
    allCropsData,    \* window.allCropsData
    mandiSelect,     \* value of the select #mandiSelect
    currentMandiDisplay, \* text of #currentMandiDisplay
    cropSearchInput, \* value of the input #cropSearchInput
    requests,        \* the requests of the template's functions that are in flight
    alerted,         \* the last alert() shown
    \* ---- one response and what its loader makes of it ----
    response,        \* a parsed response: the service and the data
    rendered         \* what the container shows once the loader has processed it

patchVars == <<file, content, functionStart, functionEnd, console, wrote, script, runs>>
pageVars == <<currentLocation, dom, sections, innerHTML, active, inv, page, last>>
mandiVars == <<pricesData, selectedMandi, allCropsData, mandiSelect, currentMandiDisplay,
               cropSearchInput, requests, alerted>>
renderVars == <<response, rendered>>
vars == <<patchVars, pageVars, mandiVars, renderVars>>

----------------------------------------------------------------------------
\* Bounds of the model

MaxFileLen == 5
MaxRuns == 2

----------------------------------------------------------------------------
\* Strings as sequences of tokens.  "a" is the text 'async function ' that all
\* three markers share; "L", "F" and "S" are 'loadMarketPrices() {',
\* 'fetchMarketPrices() {' and 'searchMandiByLocation() {'; "x" is any other
\* text of the template and "n" the body of a replacement function.

Tokens == {"a", "L", "F", "S", "x"}

LoadMarker == <<"a", "L">>
FetchMarker == <<"a", "F">>
EndMarker == <<"a", "S">>

NewLoadFunction == <<"a", "L", "n">>
NewFetchFunction == <<"a", "F", "n">>

Scripts == {"fix_market_prices", "fix_fetch_market_prices"}

StartMarkerOf(s) == IF s = "fix_market_prices" THEN LoadMarker ELSE FetchMarker

NewFunctionOf(s) == IF s = "fix_market_prices" THEN NewLoadFunction ELSE NewFetchFunction

FixedMessageOf(s) ==
    IF s = "fix_market_prices" THEN "Fixed market prices functionality"
    ELSE "Fixed fetchMarketPrices function"

NotFoundMessage == "Could not find function boundaries"

Min(a, b) == IF a < b THEN a ELSE b
Max(a, b) == IF a > b THEN a ELSE b

\* String.prototype.indexOf: the 0-based index of the first occurrence, or -1.
IndexOf(s, m) ==
    LET hits == {i \in 0..(Len(s) - Len(m)) : SubSeq(s, i + 1, i + Len(m)) = m}
    IN IF hits = {} THEN -1 ELSE CHOOSE i \in hits : \A j \in hits : i <= j

\* String.prototype.substring(a, b): both ends clamped to 0..length and swapped
\* when a > b; the characters at the 0-based positions lo..hi-1.
Substring(s, a, b) ==
    LET ca == Max(0, Min(a, Len(s)))
        cb == Max(0, Min(b, Len(s)))
    IN SubSeq(s, Min(ca, cb) + 1, Max(ca, cb))

SubstringFrom(s, a) == Substring(s, a, Len(s))

\* fix_market_prices.js:11 / the fetchMarketPrices patch :10
BothFoundMutant(s, e) == s # -1 \/ e # -1
BothFound(s, e) == s # -1 /\ e # -1

\* beforeFunction + newFunction + afterFunction
NewContent(c, s, e, new) == Substring(c, 0, s) \o new \o SubstringFrom(c, e)

\* One run of a patch script, from readFileSync to the last console.log.
RunScript(s) ==
    /\ runs < MaxRuns
    /\ runs' = runs + 1
    /\ script' = s
    /\ content' = file
    /\ LET fs == IndexOf(file, StartMarkerOf(s))
           fe == IndexOf(file, EndMarker)
       IN /\ functionStart' = fs
          /\ functionEnd' = fe
          /\ IF BothFound(fs, fe)
             THEN /\ file' = NewContent(file, fs, fe, NewFunctionOf(s))
                  /\ wrote' = TRUE
                  /\ console' = <<FixedMessageOf(s)>>
             ELSE /\ file' = file
                  /\ wrote' = FALSE
                  /\ console' = <<NotFoundMessage>>
    /\ UNCHANGED <<pageVars, mandiVars, renderVars>>

FixMarketPrices == RunScript("fix_market_prices")

FixFetchMarketPrices == RunScript("fix_fetch_market_prices")

RECURSIVE SeqsUpTo(_, _)
SeqsUpTo(S, n) ==
    IF n = 0 THEN {<<>>}
    ELSE LET shorter == SeqsUpTo(S, n - 1)
         IN shorter \cup {Append(q, t) : q \in {r \in shorter : Len(r) = n - 1}, t \in S}

----------------------------------------------------------------------------
\* The dashboard: enhanced service loading functions

MaxContainers == 2
MaxInvocations == 8
MaxNavLoads == 2

Services == {"market-prices", "weather", "government-schemes", "crop-recommendations"}

\* The names loadServiceData knows, and one it does not.
ServiceNames == Services \cup {"pest-control", "ai-assistant", "about"}

ContainerIds == {"pricesData", "weatherData", "schemesData", "cropsData", "cropRecommendationsData"}

Null == "null"

\* let currentLocation = 'Delhi'; let currentLatitude = 28.7041; let currentLongitude = 77.1025
Delhi == [name |-> "Delhi", lat |-> "28.7041", lon |-> "77.1025"]
Pune == [name |-> "Pune", lat |-> "18.5204", lon |-> "73.8567"]

\* The arguments updateLocation is called with.
Places == {Pune}

\* document.getElementById(id)
GetElementById(id) == IF id \in dom THEN id ELSE Null

\* The container each loader looks up (lines 294, 399, 474, 532).
ContainerOfMutantShared(svc) == GetElementById("pricesData")
ContainerOf(svc) ==
    CASE svc = "market-prices" -> GetElementById("pricesData")
      [] svc = "weather" -> GetElementById("weatherData")
      [] svc = "government-schemes" -> GetElementById("schemesData")
      [] svc = "crop-recommendations" ->
            IF GetElementById("cropsData") # Null THEN GetElementById("cropsData")
            ELSE GetElementById("cropRecommendationsData")

\* What a container shows.  The markup the page came with:
StaticHtml == [kind |-> "static"]
\* '<div class="loading">... लोड हो रहे हैं...</div>', one text per service
LoadingHtml(svc) == [kind |-> "loading", svc |-> svc]
\* '... उपलब्ध नहीं है', one text per service
NoDataHtml(svc) == [kind |-> "nodata", svc |-> svc]
\* '... लोड करने में त्रुटि', one text per service
ErrorHtml(svc) == [kind |-> "error", svc |-> svc]
\* The markup built from a response: the cards of its items in order, the
\* number of mandi tiles (market prices) or of forecast blocks (weather), and
\* (not part of the text) the request it answers.
DataHtml(svc, req, cards, extra) ==
    [kind |-> "data", svc |-> svc, req |-> req, cards |-> cards, extra |-> extra]

Throw == [kind |-> "throw"]

NoRequest == [name |-> Null, lat |-> Null, lon |-> Null]

\* ---- response bodies, as parsed by response.json() ----
\* A property of the data is Absent or Some(value); a list is a sequence of
\* items.  JSON null as the whole body is NullData, as a list entry it is Null.

Absent == [has |-> FALSE]
Some(v) == [has |-> TRUE, val |-> v]
NullData == [isNull |-> TRUE]

\* a || b for properties holding objects or arrays: both are truthy when present
\* (an empty array too).
Or(a, b) == IF a.has THEN a ELSE b

RisingIcon == "up"
FallingIcon == "down"
NeutralIcon == "chart"

\* crop.trend === 'बढ़ रहा' ? '📈' : crop.trend === 'गिर रहा' ? '📉' : '📊'
TrendIcon(trend) ==
    IF trend = "rising" THEN RisingIcon
    ELSE IF trend = "falling" THEN FallingIcon
    ELSE NeutralIcon

\* A crop of the response; priced: it has current_price, msp and profit.
Crop(trend, priced) == [trend |-> trend, priced |-> priced]

\* Lines 308-384: from the parsed data to the markup, or the exception.
RenderMarketPrices(data, req) ==
    IF data = NullData THEN Throw
    ELSE LET crops == Or(Or(data.crops, data.top_crops), Some(<<>>)).val
             nearbyMandis == Or(Or(data.nearby_mandis, data.mp_nearby_mandis), Some(<<>>)).val
         IN IF Len(crops) > 0
            THEN IF \/ \E i \in 1..Len(crops) : ~crops[i].priced
                    \/ \E i \in 1..Len(nearbyMandis) : nearbyMandis[i] = Null
                 THEN Throw
                 ELSE DataHtml("market-prices", req,
                               [i \in 1..Len(crops) |-> TrendIcon(crops[i].trend)],
                               Len(nearbyMandis))
            ELSE NoDataHtml("market-prices")

\* forecast.slice(0, 7)
Slice7MutantWholeList(s) == s
Slice7(s) == SubSeq(s, 1, Min(Len(s), 7))

\* Lines 413-459.  A temperature or location of "" stands for a missing one.
RenderWeather(data, req) ==
    IF data = NullData THEN Throw
    ELSE LET weather == Or(Or(data.current_weather, data.data_current), Some([temperature |-> ""])).val
             forecast == Or(Or(data.forecast_7_days, data.data_forecast_7_days), Some(<<>>)).val
         IN IF weather.temperature # "" \/ data.location # ""
            THEN IF Len(forecast) > 0
                 THEN IF \E i \in 1..Len(Slice7(forecast)) : forecast[i] = Null
                      THEN Throw
                      ELSE DataHtml("weather", req, Slice7(forecast), 1)
                 ELSE DataHtml("weather", req, <<>>, 0)
            ELSE NoDataHtml("weather")

\* Lines 488-517.
RenderGovernmentSchemesMutantThrowsOnEmpty(data, req) ==
    IF data = NullData THEN Throw
    ELSE IF Or(data.schemes, Some(<<>>)).val = <<>> THEN Throw
    ELSE DataHtml("government-schemes", req, data.schemes.val, 0)
RenderGovernmentSchemes(data, req) ==
    IF data = NullData THEN Throw
    ELSE LET schemes == Or(data.schemes, Some(<<>>)).val
         IN IF Len(schemes) > 0
            THEN IF \E i \in 1..Len(schemes) : schemes[i] = Null
                 THEN Throw
                 ELSE DataHtml("government-schemes", req, schemes, 0)
            ELSE NoDataHtml("government-schemes")

\* Lines 545-625.  A recommendation without profit_per_hectare is Null here:
\* the template calls toLocaleString on it.
RenderCropRecommendations(data, req) ==
    IF data = NullData THEN Throw
    ELSE LET recommendations == Or(data.recommendations, Some(<<>>)).val
         IN IF Len(recommendations) > 0
            THEN IF \E i \in 1..Len(recommendations) : recommendations[i] = Null
                 THEN Throw
                 ELSE DataHtml("crop-recommendations", req, recommendations, 0)
            ELSE NoDataHtml("crop-recommendations")

Render(svc, data, req) ==
    CASE svc = "market-prices" -> RenderMarketPrices(data, req)
      [] svc = "weather" -> RenderWeather(data, req)
      [] svc = "government-schemes" -> RenderGovernmentSchemes(data, req)
      [] svc = "crop-recommendations" -> RenderCropRecommendations(data, req)

MarketData(crops, top, mandis, mpMandis) ==
    [crops |-> crops, top_crops |-> top, nearby_mandis |-> mandis, mp_nearby_mandis |-> mpMandis]

WeatherData(cw, dc, loc, f7, df7) ==
    [current_weather |-> cw, data_current |-> dc, location |-> loc,
     forecast_7_days |-> f7, data_forecast_7_days |-> df7]

\* The bodies the services answer with in the page model.
Bodies(svc) ==
    CASE svc = "market-prices" ->
            {MarketData(Absent, Absent, Absent, Absent),
             MarketData(Some(<<Crop("rising", TRUE)>>), Absent, Absent, Absent),
             MarketData(Some(<<Crop("rising", TRUE), Crop("rising", FALSE)>>), Absent, Absent, Absent)}
      [] svc = "weather" ->
            {NullData,
             WeatherData(Absent, Absent, "", Absent, Absent),
             WeatherData(Some([temperature |-> "31"]), Absent, "place", Some(<<"mon">>), Absent)}
      [] svc = "government-schemes" ->
            {NullData, [schemes |-> Some(<<>>)], [schemes |-> Some(<<"pm-kisan">>)]}
      [] svc = "crop-recommendations" ->
            {[recommendations |-> Absent], [recommendations |-> Some(<<"wheat">>)],
             [recommendations |-> Some(<<"wheat", Null>>)]}

\* ---- loader invocations ----
\* st is the part of the page a handler changes while it runs:
\* [html |-> innerHTML, inv |-> inv].  An invocation records its service, the
\* container it found, where it is suspended (pc), the location its request
\* carries, what its container showed when fetch was
\* called, and how often it has assigned innerHTML and called fetch.

\* The loader returned at 'container not found' (lines 295-298).
Returned(svc) ==
    [svc |-> svc, c |-> Null, pc |-> "done", req |-> NoRequest,
     shown |-> StaticHtml, writes |-> 0, fetches |-> 0]

\* container.innerHTML = '<div class="loading">...' (lines 300, 405, 480, 538)
ShowLoading(svc, c, st) == [st EXCEPT !.html[c] = LoadingHtml(svc)]

\* await fetch(...) (lines 302, 407, 482, 540): the market and weather URLs
\* carry location, latitude and longitude; the other two only the location.
RequestOf(svc, loc) ==
    IF svc \in {"market-prices", "weather"} THEN loc
    ELSE [name |-> loc.name, lat |-> Null, lon |-> Null]

Fetch(svc, c, loc, writes, st) ==
    [st EXCEPT !.inv = Append(@, [svc |-> svc, c |-> c, pc |-> "awaitFetch",
                                  req |-> RequestOf(svc, loc),
                                  shown |-> st.html[c],
                                  writes |-> writes, fetches |-> 1])]

\* A loader up to its first await.
FetchThenShowLoading(svc, loc, st) ==
    LET c == ContainerOf(svc)
    IN IF c = Null THEN [st EXCEPT !.inv = Append(@, Returned(svc))]
       ELSE ShowLoading(svc, c, Fetch(svc, c, loc, 0, st))
StartLoader(svc, loc, st) ==
    LET c == ContainerOf(svc)
    IN IF c = Null THEN [st EXCEPT !.inv = Append(@, Returned(svc))]
       ELSE Fetch(svc, c, loc, 1, ShowLoading(svc, c, st))

LoadMarketPrices(loc, st) == StartLoader("market-prices", loc, st)
LoadWeatherData(loc, st) == StartLoader("weather", loc, st)
LoadGovernmentSchemes(loc, st) == StartLoader("government-schemes", loc, st)
LoadCropRecommendations(loc, st) == StartLoader("crop-recommendations", loc, st)

\* The catch block (lines 385-391, 460-466, 518-524, 626-632): looks the
\* container up again and shows the error text; the loader then returns.
CatchMutantSilent(i, st) == [st EXCEPT !.inv[i].pc = "done"]
CatchMutantRetry(i, st) ==
    [st EXCEPT !.inv[i].pc = "awaitFetch", !.inv[i].fetches = @ + 1]
Catch(i, st) ==
    LET svc == st.inv[i].svc
        container == ContainerOf(svc)
    IN IF container # Null
       THEN [st EXCEPT !.html[container] = ErrorHtml(svc), !.inv[i].pc = "done",
                       !.inv[i].writes = @ + 1]
       ELSE [st EXCEPT !.inv[i].pc = "done"]

\* The HTTP status of a response: response.ok or not.
Statuses == {"ok", "notok"}

\* const data = await response.json(): the response is taken as it came,
\* whatever its status; response.ok and response.status are never read.
ResponseAccepted(status) == TRUE

\* Lines 305-384 after the data arrived: build the markup and assign it, or
\* assign the no-data text; an exception on the way goes to the catch block.
Display(i, data, st) ==
    LET svc == st.inv[i].svc
        html == Render(svc, data, st.inv[i].req)
    IN IF html = Throw THEN Catch(i, st)
       ELSE [st EXCEPT !.html[st.inv[i].c] = html, !.inv[i].pc = "done",
                       !.inv[i].writes = @ + 1]

Page == [html |-> innerHTML, inv |-> inv]

Commit(st) ==
    /\ innerHTML' = st.html
    /\ inv' = st.inv

Pending(i) == inv[i].pc # "done"

\* The handler that ran last: its name, its argument and the number of loader
\* invocations there were before it.
Called(op, arg) == [op |-> op, arg |-> arg, base |-> Len(inv)]

\* ---- the network and the promise continuations ----

\* fetch rejects (network failure): the catch block runs.
FetchRejects(i) ==
    /\ inv[i].pc = "awaitFetch"
    /\ Commit(Catch(i, Page))
    /\ UNCHANGED <<patchVars, mandiVars, renderVars, currentLocation, dom, sections, active, page, last>>

\* fetch resolves with a response, whatever its HTTP status; response.json()
\* is called.
FetchResolves(i) ==
    /\ inv[i].pc = "awaitFetch"
    /\ Commit([Page EXCEPT !.inv[i].pc = "awaitJson"])
    /\ UNCHANGED <<patchVars, mandiVars, renderVars, currentLocation, dom, sections, active, page, last>>

\* response.json() rejects: the body is not valid JSON.
JsonRejects(i) ==
    /\ inv[i].pc = "awaitJson"
    /\ Commit(Catch(i, Page))
    /\ UNCHANGED <<patchVars, mandiVars, renderVars, currentLocation, dom, sections, active, page, last>>

\* response.json() resolves with the parsed data of a response that came with
\* the given HTTP status ("ok": 200-299).  The status is drawn here, with the
\* body, and not kept while the loader waits.
JsonResolves(i, status, data) ==
    /\ inv[i].pc = "awaitJson"
    /\ IF ResponseAccepted(status)
       THEN Commit(Display(i, data, Page))
       ELSE Commit(Catch(i, Page))
    /\ UNCHANGED <<patchVars, mandiVars, renderVars, currentLocation, dom, sections, active, page, last>>

\* ---- the handlers ----

\* The four loads of updateLocation and of the initial auto-load, in order
\* (lines 648-651, 760-763).
LoadAll(loc, st) ==
    LoadCropRecommendations(loc,
        LoadGovernmentSchemes(loc,
            LoadWeatherData(loc,
                LoadMarketPrices(loc, st))))

\* updateLocation(locationName, latitude, longitude), lines 639-652
UpdateLocationMutantNameOnly(place) ==
    /\ Len(inv) + 4 <= MaxInvocations
    /\ currentLocation' = [currentLocation EXCEPT !.name = place.name]
    /\ last' = Called("updateLocation", place.name)
    /\ Commit(LoadAll([currentLocation EXCEPT !.name = place.name], Page))
    /\ UNCHANGED <<patchVars, mandiVars, renderVars, dom, sections, active, page>>
UpdateLocation(place) ==
    /\ Len(inv) + 4 <= MaxInvocations
    /\ currentLocation' = place
    /\ last' = Called("updateLocation", place.name)
    /\ Commit(LoadAll(place, Page))
    /\ UNCHANGED <<patchVars, mandiVars, renderVars, dom, sections, active, page>>

\* loadServiceData(serviceName), lines 686-709
LoadServiceDataMutantSwapped(serviceName, loc, st) ==
    CASE serviceName = "weather" -> LoadMarketPrices(loc, st)
      [] serviceName = "market-prices" -> LoadWeatherData(loc, st)
      [] serviceName = "about" -> LoadGovernmentSchemes(loc, st)
      [] OTHER -> st
LoadServiceData(serviceName, loc, st) ==
    CASE serviceName = "government-schemes" -> LoadGovernmentSchemes(loc, st)
      [] serviceName = "crop-recommendations" -> LoadCropRecommendations(loc, st)
      [] serviceName = "weather" -> LoadWeatherData(loc, st)
      [] serviceName = "market-prices" -> LoadMarketPrices(loc, st)
      [] serviceName = "pest-control" -> st
      [] serviceName = "ai-assistant" -> st
      [] OTHER -> st

\* window.loadServiceData called directly
CallLoadServiceData(serviceName) ==
    LET st == LoadServiceData(serviceName, currentLocation, Page)
    IN /\ Len(st.inv) <= MaxNavLoads
       /\ last' = Called("loadServiceData", serviceName)
       /\ Commit(st)
       /\ UNCHANGED <<patchVars, mandiVars, renderVars, currentLocation, dom, sections, active, page>>

\* showService(serviceName), lines 661-684: every section loses 'active'; when
\* the section of the name exists it gets 'active' and the service is loaded.
ShowServiceMutantKeepsActive(serviceName) ==
    LET section == IF serviceName \in sections THEN serviceName ELSE Null
        st == IF section # Null THEN LoadServiceData(serviceName, currentLocation, Page)
              ELSE Page
    IN /\ Len(st.inv) <= MaxNavLoads
       /\ last' = Called("showService", serviceName)
       /\ active' = IF section # Null THEN active \cup {section} ELSE active
       /\ Commit(st)
       /\ UNCHANGED <<patchVars, mandiVars, renderVars, currentLocation, dom, sections, page>>
ShowService(serviceName) ==
    LET section == IF serviceName \in sections THEN serviceName ELSE Null
        st == IF section # Null THEN LoadServiceData(serviceName, currentLocation, Page)
              ELSE Page
    IN /\ Len(st.inv) <= MaxNavLoads
       /\ last' = Called("showService", serviceName)
       /\ active' = IF section # Null THEN {section} ELSE {}
       /\ Commit(st)
       /\ UNCHANGED <<patchVars, mandiVars, renderVars, currentLocation, dom, sections, page>>

\* The DOMContentLoaded listener, lines 751-766: sets the cards up and arms the
\* one-second timer.
DOMContentLoaded ==
    /\ page = "parsed"
    /\ page' = "timer"
    /\ last' = Called("setupServiceCards", "")
    /\ UNCHANGED <<patchVars, mandiVars, renderVars, currentLocation, dom, sections, innerHTML, active, inv>>

\* The timer callback, lines 758-765.
AutoLoadMutantLoadsTwice ==
    /\ page = "timer"
    /\ Len(inv) + 8 <= MaxInvocations
    /\ page' = "loaded"
    /\ last' = Called("autoLoad", "")
    /\ Commit(LoadAll(currentLocation, LoadAll(currentLocation, Page)))
    /\ UNCHANGED <<patchVars, mandiVars, renderVars, currentLocation, dom, sections, active>>
AutoLoad ==
    /\ page = "timer"
    /\ Len(inv) + 4 <= MaxInvocations
    /\ page' = "loaded"
    /\ last' = Called("autoLoad", "")
    /\ Commit(LoadAll(currentLocation, Page))
    /\ UNCHANGED <<patchVars, mandiVars, renderVars, currentLocation, dom, sections, active>>

----------------------------------------------------------------------------
\* The market-price views the patch installs in the template
\* (the text of newFunction, fix_market_prices.js lines 15-269)

MaxMandiRequests == 2

DefaultMandiDisplay == "all-mandis-average"

MandiControls == {"mandiSelect", "cropSearchInput", "resetButton", "currentMandiDisplay"}

\* What #pricesData holds: the kind of markup, the elements with an id or a
\* handler in it, and what it lists.
PlainView(kind, what) ==
    [kind |-> kind, what |-> what, controls |-> {}, options |-> <<>>, cards |-> <<>>]

\* '<span class="trend-icon">📈</span>' of every card (lines 88, 180)
CardIcon(crop) == RisingIcon

\* displayAllCropsWithDifferentPrices(data), lines 46-118
DisplayAllCropsWithDifferentPrices(data) ==
    [kind |-> "all", what |-> "",
     controls |-> MandiControls,
     options |-> IF data.nearest_mandis.has THEN data.nearest_mandis.val ELSE <<>>,
     cards |-> [i \in 1..Len(data.crops.val) |-> CardIcon(data.crops.val[i])]]

\* displayMandiSpecificCrops(crops, mandiName), lines 165-210
DisplayMandiSpecificCrops(crops, mandiName) ==
    [kind |-> "mandi", what |-> mandiName, controls |-> {}, options |-> <<>>,
     cards |-> [i \in 1..Len(crops) |-> CardIcon(crops[i])]]

\* Crop names and search texts are sequences of letters.
Wheat == <<"w", "h">>
Rice == <<"r", "i">>

NamedCrop(name, trend) == [name |-> name, trend |-> trend]

\* String.prototype.trim, with " " the only white space
RECURSIVE TrimLeft(_)
TrimLeft(s) == IF s # <<>> /\ Head(s) = " " THEN TrimLeft(Tail(s)) ELSE s
RECURSIVE TrimRight(_)
TrimRight(s) ==
    IF s # <<>> /\ s[Len(s)] = " " THEN TrimRight(SubSeq(s, 1, Len(s) - 1)) ELSE s
Trim(s) == TrimRight(TrimLeft(s))

\* String.prototype.toLowerCase on the letters used
ToLowerCase(s) ==
    [i \in 1..Len(s) |-> CASE s[i] = "W" -> "w" [] s[i] = "R" -> "r" [] OTHER -> s[i]]

\* String.prototype.includes
Includes(s, q) == IndexOf(s, q) # -1

\* Array.prototype.find: the first crop whose name includes the text, as a
\* list of none or one.
Find(crops, cropName) ==
    LET hits == {i \in 1..Len(crops) : Includes(ToLowerCase(crops[i].name), cropName)}
    IN IF hits = {} THEN <<>> ELSE <<crops[CHOOSE i \in hits : \A j \in hits : i <= j]>>

\* data.status === 'success' && data.crops && data.crops.length > 0
HasCrops(data) ==
    /\ data # NullData
    /\ data.status = "success"
    /\ data.crops.has
    /\ Len(data.crops.val) > 0

TemplateData(status, crops, mandis) == [status |-> status, crops |-> crops, nearest_mandis |-> mandis]

\* The bodies /api/realtime-gov/market_prices/ and .../mandi_prices/ answer with.
TemplateBodies(fn) ==
    IF fn = "loadMarketPrices"
    THEN {NullData,
          TemplateData("error", Absent, Absent),
          TemplateData("success", Some(<<NamedCrop(Wheat, "rising"), NamedCrop(Rice, "falling")>>),
                       Some(<<"Azadpur", "Ghazipur">>)),
          TemplateData("success", Some(<<NamedCrop(Rice, "stable")>>), Absent)}
    ELSE {NullData,
          TemplateData("success", Some(<<>>), Absent),
          TemplateData("success", Some(<<NamedCrop(Wheat, "falling"), NamedCrop(Rice, "rising")>>), Absent)}

\* What the user may type in the crop search box.
SearchTexts == {<<>>, <<" ">>, <<"W">>, <<"r", "i", " ">>, <<"x">>}

Request(fn, mandi, cropName) == [fn |-> fn, mandi |-> mandi, cropName |-> cropName, pc |-> "awaitFetch"]

Remove(s, k) == [i \in 1..(Len(s) - 1) |-> IF i < k THEN s[i] ELSE s[i + 1]]

\* A view without the controls has no select, input or display text.
FreshControls ==
    /\ mandiSelect' = ""
    /\ currentMandiDisplay' = DefaultMandiDisplay
    /\ cropSearchInput' = <<>>

\* loadMarketPrices of the template up to its first await, lines 15-20
TemplateLoadMarketPrices ==
    /\ Len(requests) < MaxMandiRequests
    /\ pricesData' = PlainView("loading", "market")
    /\ FreshControls
    /\ requests' = Append(requests, Request("loadMarketPrices", Null, <<>>))
    /\ UNCHANGED <<selectedMandi, allCropsData, alerted>>
    /\ UNCHANGED <<patchVars, pageVars, renderVars>>

\* fetchMandiPrices(mandiName) up to its first await, lines 145-150
FetchMandiPricesView == PlainView("loading", "mandi")

\* selectMandiFromDropdown(), lines 124-142: the onchange handler of the select
SelectMandiFromDropdown(selectedValue) ==
    /\ "mandiSelect" \in pricesData.controls
    /\ selectedValue # mandiSelect
    /\ \/ selectedValue = ""
       \/ \E k \in 1..Len(pricesData.options) : pricesData.options[k] = selectedValue
    /\ IF selectedValue # ""
       THEN /\ Len(requests) < MaxMandiRequests
            /\ selectedMandi' = selectedValue
            /\ pricesData' = FetchMandiPricesView
            /\ FreshControls
            /\ requests' = Append(requests, Request("fetchMandiPrices", selectedValue, <<>>))
            /\ UNCHANGED <<allCropsData, alerted>>
       ELSE /\ selectedMandi' = Null
            /\ IF allCropsData.has
               THEN /\ pricesData' = DisplayAllCropsWithDifferentPrices(allCropsData.val)
                    /\ FreshControls
               ELSE /\ currentMandiDisplay' = DefaultMandiDisplay
                    /\ UNCHANGED <<pricesData, mandiSelect, cropSearchInput>>
            /\ UNCHANGED <<requests, allCropsData, alerted>>
    /\ UNCHANGED <<patchVars, pageVars, renderVars>>

\* The user types in the crop search box.
TypeCrop(text) ==
    /\ "cropSearchInput" \in pricesData.controls
    /\ cropSearchInput' = text
    /\ UNCHANGED <<pricesData, selectedMandi, allCropsData, mandiSelect, currentMandiDisplay,
                   requests, alerted>>
    /\ UNCHANGED <<patchVars, pageVars, renderVars>>

\* searchCropFromSelectedMandi() up to its first await, lines 213-231
SearchCropFromSelectedMandi ==
    /\ "cropSearchInput" \in pricesData.controls
    /\ LET cropName == ToLowerCase(Trim(cropSearchInput))
       IN IF cropName = <<>>
          THEN /\ alerted' = "enter-crop-name"
               /\ UNCHANGED <<pricesData, mandiSelect, currentMandiDisplay, cropSearchInput, requests>>
          ELSE IF selectedMandi = Null
          THEN /\ alerted' = "select-mandi-first"
               /\ UNCHANGED <<pricesData, mandiSelect, currentMandiDisplay, cropSearchInput, requests>>
          ELSE /\ Len(requests) < MaxMandiRequests
               /\ pricesData' = PlainView("loading", "search")
               /\ FreshControls
               /\ requests' = Append(requests, Request("searchCrop", selectedMandi, cropName))
               /\ UNCHANGED alerted
    /\ UNCHANGED <<selectedMandi, allCropsData>>
    /\ UNCHANGED <<patchVars, pageVars, renderVars>>

\* resetMandiSelection(), lines 254-267: the onclick handler of the reset button
ResetMandiSelection ==
    /\ "resetButton" \in pricesData.controls
    /\ selectedMandi' = Null
    /\ FreshControls
    /\ pricesData' = IF allCropsData.has THEN DisplayAllCropsWithDifferentPrices(allCropsData.val)
                     ELSE pricesData
    /\ UNCHANGED <<allCropsData, requests, alerted>>
    /\ UNCHANGED <<patchVars, pageVars, renderVars>>

\* The catch blocks, lines 40-43, 158-161, 247-250
TemplateError(fn) ==
    CASE fn = "loadMarketPrices" -> PlainView("error", "market")
      [] fn = "fetchMandiPrices" -> PlainView("error", "mandi")
      [] fn = "searchCrop" -> PlainView("error", "search")

\* fetch rejects, or response.json() does
TemplateRequestFails(k) ==
    /\ k \in DOMAIN requests
    /\ pricesData' = TemplateError(requests[k].fn)
    /\ FreshControls
    /\ requests' = Remove(requests, k)
    /\ UNCHANGED <<selectedMandi, allCropsData, alerted>>
    /\ UNCHANGED <<patchVars, pageVars, renderVars>>

\* fetch resolves; response.json() is called
TemplateFetchResolves(k) ==
    /\ k \in DOMAIN requests
    /\ requests[k].pc = "awaitFetch"
    /\ requests' = [requests EXCEPT ![k].pc = "awaitJson"]
    /\ UNCHANGED <<pricesData, selectedMandi, allCropsData, mandiSelect, currentMandiDisplay,
                   cropSearchInput, alerted>>
    /\ UNCHANGED <<patchVars, pageVars, renderVars>>

\* What a function shows once its data arrived (lines 23-39, 153-157, 234-246).
TemplateShow(r, data) ==
    IF data = NullData THEN TemplateError(r.fn)
    ELSE CASE r.fn = "loadMarketPrices" ->
                IF HasCrops(data) THEN DisplayAllCropsWithDifferentPrices(data)
                ELSE PlainView("nodata", "market")
           [] r.fn = "fetchMandiPrices" ->
                IF HasCrops(data) THEN DisplayMandiSpecificCrops(data.crops.val, r.mandi)
                ELSE PlainView("nodata", "mandi")
           [] r.fn = "searchCrop" ->
                IF HasCrops(data)
                THEN LET foundCrop == Find(data.crops.val, r.cropName)
                     IN IF foundCrop # <<>>
                        THEN DisplayMandiSpecificCrops(foundCrop, selectedMandi)
                        ELSE PlainView("notfound", selectedMandi)
                ELSE PlainView("nodata", "mandi")

\* response.json() resolves with the data
TemplateJsonResolves(k, data) ==
    /\ k \in DOMAIN requests
    /\ requests[k].pc = "awaitJson"
    /\ pricesData' = TemplateShow(requests[k], data)
    /\ FreshControls
    /\ allCropsData' = IF requests[k].fn = "loadMarketPrices" /\ HasCrops(data)
                       THEN Some(data) ELSE allCropsData
    /\ requests' = Remove(requests, k)
    /\ UNCHANGED <<selectedMandi, alerted>>
    /\ UNCHANGED <<patchVars, pageVars, renderVars>>

----------------------------------------------------------------------------
\* One response and what its loader makes of it: the loaders from the parsed
\* data to the content of the container, for responses of many shapes.

MaxForecast == 8
MaxCrops == 2
MaxItems == 2

NoResponse == [svc |-> "none", data |-> NullData]
NotRendered == [kind |-> "none"]

\* crop.trend: 'बढ़ रहा', 'गिर रहा' or anything else
Trends == {"rising", "falling", "stable"}

CropItems == {Crop(t, p) : t \in Trends, p \in BOOLEAN}

\* The entries of a forecast list, in order.
DayNames == <<"d1", "d2", "d3", "d4", "d5", "d6", "d7", "d8", "d9", "d10">>

\* A property that is absent or holds one of the given values.
Optional(values) == {Absent} \cup {Some(v) : v \in values}

\* Forecast lists: of every length up to MaxForecast, and lists with a null
\* entry among the first seven or after them.
Forecasts ==
    {SubSeq(DayNames, 1, k) : k \in 0..MaxForecast}
        \cup {<<"d1", Null, "d3">>}
        \cup {[i \in 1..MaxForecast |-> IF i = MaxForecast THEN Null ELSE DayNames[i]]}

MarketBodies ==
    {NullData} \cup
    {MarketData(c, t, m, mm) :
        c \in Optional(SeqsUpTo(CropItems, MaxCrops)),
        t \in Optional({<<>>, <<Crop("falling", TRUE)>>}),
        m \in Optional({<<>>, <<"Azadpur">>, <<Null>>}),
        mm \in Optional({<<"Okhla", "Ghazipur">>})}

WeatherBodies ==
    {NullData} \cup
    {WeatherData(cw, dc, loc, f7, df7) :
        cw \in Optional({[temperature |-> "31"], [temperature |-> ""]}),
        dc \in Optional({[temperature |-> "25"]}),
        loc \in {"", "place"},
        f7 \in Optional(Forecasts),
        df7 \in Optional({<<"e1">>})}

SchemeBodies ==
    {NullData} \cup
    {[schemes |-> x] : x \in Optional(SeqsUpTo({"pm-kisan", "kcc", Null}, MaxItems))}

RecommendationBodies ==
    {NullData} \cup
    {[recommendations |-> x] : x \in Optional(SeqsUpTo({"wheat", "rice", Null}, MaxItems))}

RenderBodies(svc) ==
    CASE svc = "market-prices" -> MarketBodies
      [] svc = "weather" -> WeatherBodies
      [] svc = "government-schemes" -> SchemeBodies
      [] svc = "crop-recommendations" -> RecommendationBodies

\* What the container shows when response.json() resolved with the data: the
\* markup, the no-data text, or the error text of the catch block.
ShownMutantKeepsPartial(svc, data, req) ==
    IF Render(svc, data, req) = Throw THEN DataHtml(svc, req, <<>>, 0) ELSE Render(svc, data, req)
Shown(svc, data, req) ==
    IF Render(svc, data, req) = Throw THEN ErrorHtml(svc) ELSE Render(svc, data, req)

\* The loader processes the response (from 'const data = await
\* response.json()' to the end of the function).
ProcessResponse ==
    /\ rendered = NotRendered
    /\ rendered' = Shown(response.svc, response.data, RequestOf(response.svc, Delhi))
    /\ UNCHANGED <<patchVars, pageVars, mandiVars, response>>

RenderIdle ==
    /\ response = NoResponse
    /\ rendered = NotRendered

MandiIdle ==
    /\ pricesData = PlainView("static", "")
    /\ selectedMandi = Null
    /\ allCropsData = Absent
    /\ mandiSelect = ""
    /\ currentMandiDisplay = DefaultMandiDisplay
    /\ cropSearchInput = <<>>
    /\ requests = <<>>
    /\ alerted = ""

SectionNames == Services \cup {"pest-control", "ai-assistant"}

PatchIdle ==
    /\ file = <<>>
    /\ content = <<>>
    /\ functionStart = -1
    /\ functionEnd = -1
    /\ console = <<>>
    /\ wrote = FALSE
    /\ script = "none"
    /\ runs = 0

\* The page as the browser parsed it, before DOMContentLoaded: the template
\* has some of the containers and all the sections.
Init ==
    /\ PatchIdle
    /\ currentLocation = Delhi
    /\ dom \in {d \in SUBSET ContainerIds : Cardinality(d) <= MaxContainers}
    /\ sections = SectionNames
    /\ innerHTML = [c \in ContainerIds |-> StaticHtml]
    /\ active = {}
    /\ inv = <<>>
    /\ page = "parsed"
    /\ last = Called("none", "")
    /\ MandiIdle
    /\ RenderIdle

\* Page load, location updates and the network.
Next ==
    \/ DOMContentLoaded
    \/ AutoLoad
    \/ \E place \in Places : UpdateLocation(place)
    \/ \E i \in DOMAIN inv : FetchRejects(i)
    \/ \E i \in DOMAIN inv : FetchResolves(i)
    \/ \E i \in DOMAIN inv : JsonRejects(i)
    \/ \E i \in DOMAIN inv, status \in Statuses : \E data \in Bodies(inv[i].svc) :
          JsonResolves(i, status, data)

Spec == Init /\ [][Next]_vars

\* Navigation: the user showing services, on the same pages.  The section of
\* every known service exists; the one of the name "about" does not.
NavNext ==
    \/ \E name \in ServiceNames : ShowService(name)
    \/ \E name \in ServiceNames : CallLoadServiceData(name)
    \/ \E i \in DOMAIN inv : FetchRejects(i)
    \/ \E i \in DOMAIN inv : FetchResolves(i)
    \/ \E i \in DOMAIN inv : JsonRejects(i)
    \/ \E i \in DOMAIN inv, status \in Statuses : \E data \in Bodies(inv[i].svc) :
          JsonResolves(i, status, data)

NavSpec == Init /\ [][NavNext]_vars

PageIdle ==
    /\ currentLocation = Delhi
    /\ dom = {}
    /\ sections = {}
    /\ innerHTML = [c \in ContainerIds |-> StaticHtml]
    /\ active = {}
    /\ inv = <<>>
    /\ page = "none"
    /\ last = Called("none", "")

PatchInit ==
    /\ file \in SeqsUpTo(Tokens, MaxFileLen)
    /\ content = <<>>
    /\ functionStart = -1
    /\ functionEnd = -1
    /\ console = <<>>
    /\ wrote = FALSE
    /\ script = "none"
    /\ runs = 0
    /\ PageIdle
    /\ MandiIdle
    /\ RenderIdle

PatchNext == FixMarketPrices \/ FixFetchMarketPrices

PatchSpec == PatchInit /\ [][PatchNext]_vars

MandiInit == PatchIdle /\ PageIdle /\ MandiIdle /\ RenderIdle

MandiNext ==
    \/ TemplateLoadMarketPrices
    \/ \E v \in {"", "Azadpur", "Ghazipur"} : SelectMandiFromDropdown(v)
    \/ \E text \in SearchTexts : TypeCrop(text)
    \/ SearchCropFromSelectedMandi
    \/ ResetMandiSelection
    \/ \E k \in DOMAIN requests : TemplateRequestFails(k)
    \/ \E k \in DOMAIN requests : TemplateFetchResolves(k)
    \/ \E k \in DOMAIN requests : \E data \in TemplateBodies(requests[k].fn) :
          TemplateJsonResolves(k, data)

MandiSpec == MandiInit /\ [][MandiNext]_vars

RenderInit ==
    /\ PatchIdle
    /\ PageIdle
    /\ MandiIdle
    /\ response \in UNION {{[svc |-> svc, data |-> data] : data \in RenderBodies(svc)} : svc \in Services}
    /\ rendered = NotRendered

RenderNext == ProcessResponse

RenderSpec == RenderInit /\ [][RenderNext]_vars

----------------------------------------------------------------------------
\* Claims

Settled == \A i \in DOMAIN inv : inv[i].pc = "done"

ServiceOfContainer(c) ==
    CASE c = "pricesData" -> "market-prices"
      [] c = "weatherData" -> "weather"
      [] c = "schemesData" -> "government-schemes"
      [] OTHER -> "crop-recommendations"

\* C1: when the fetch of a running loader rejects, its body is not valid JSON
\* or building the markup throws, the step ends the loader (its promise
\* resolves) with the service's error text in the loader's own container.
C1_FailureShowsError ==
    [][\A i \in DOMAIN inv :
          (/\ Pending(i)
           /\ inv'[i] # inv[i]
           /\ \/ FetchRejects(i)
              \/ JsonRejects(i)
              \/ \E data \in Bodies(inv[i].svc) :
                    /\ Render(inv[i].svc, data, inv[i].req) = Throw
                    /\ \E status \in Statuses : JsonResolves(i, status, data))
          => /\ inv'[i].pc = "done"
             /\ innerHTML'[inv[i].c] = ErrorHtml(inv[i].svc)]_vars

C1_Witness ==
    \E i \in DOMAIN inv :
        /\ inv[i].fetches = 1
        /\ inv[i].pc = "done"
        /\ innerHTML[inv[i].c] = ErrorHtml(inv[i].svc)

\* C2: a loader whose request is in flight showed the loading placeholder in
\* its container when it called fetch, and has assigned the container only
\* that once.
C2_LoadingBeforeFetch ==
    \A i \in DOMAIN inv :
        inv[i].pc = "awaitFetch" =>
            /\ inv[i].shown = LoadingHtml(inv[i].svc)
            /\ inv[i].writes = 1

C2_Witness ==
    \E i \in DOMAIN inv :
        /\ inv[i].pc = "awaitFetch"
        /\ innerHTML[inv[i].c] = LoadingHtml(inv[i].svc)

\* C3: once every issued request has settled, no container shows a loading
\* placeholder.
C3_SettledNotLoading ==
    Settled => \A c \in ContainerIds : innerHTML[c].kind # "loading"

C3_Witness ==
    /\ Settled
    /\ \E i \in DOMAIN inv : inv[i].fetches = 1 /\ innerHTML[inv[i].c].kind = "nodata"

\* The loader invocations the handler that ran last started.
Started == SubSeq(inv, last.base + 1, Len(inv))

\* C4: loadServiceData(name), called directly or by showService, starts
\* exactly the loader of the service named, and none for any other name.
C4_Dispatch ==
    (\/ last.op = "loadServiceData"
     \/ last.op = "showService" /\ last.arg \in sections)
    => IF last.arg \in Services
       THEN Len(Started) = 1 /\ Started[1].svc = last.arg
       ELSE Started = <<>>

C4_Witness ==
    /\ last.op = "loadServiceData"
    /\ last.arg = "weather"
    /\ Len(Started) = 1
    /\ Started[1].svc = "weather"
    /\ Started[1].fetches = 1

\* C5: whenever a container changes, it is the container of a loader that
\* took the step, and what it now shows is text of that service: the other
\* containers are left as they were.
C5_OwnContainerOnly ==
    [][\A c \in ContainerIds :
          innerHTML'[c] # innerHTML[c] =>
              /\ innerHTML'[c].svc = ServiceOfContainer(c)
              /\ \E i \in DOMAIN inv' :
                    /\ inv'[i].c = c
                    /\ inv'[i].svc = ServiceOfContainer(c)
                    /\ (i \in DOMAIN inv => inv'[i].pc # inv[i].pc)]_vars

C5_Witness ==
    \E c1, c2 \in ContainerIds :
        /\ c1 # c2
        /\ innerHTML[c1].kind \in {"error", "nodata"}
        /\ innerHTML[c2].kind = "data"

\* C6: an invocation calls fetch at most once: no step makes a started
\* invocation fetch again, and a step that issues requests starts the
\* invocations that issue them, one request each.
C6_NoRetry ==
    [][/\ \A i \in DOMAIN inv : inv'[i].fetches = inv[i].fetches
       /\ \A i \in DOMAIN inv' : inv'[i].fetches <= 1]_vars

C6_Witness ==
    /\ Settled
    /\ \E i \in DOMAIN inv : inv[i].fetches = 1 /\ innerHTML[inv[i].c].kind = "error"

\* C7 (as claimed): a response with a non-success status ends with the error
\* text in the container.
C7_NonSuccessShowsError ==
    [][\A i \in DOMAIN inv :
          (/\ Pending(i)
           /\ inv'[i] # inv[i]
           /\ \E data \in Bodies(inv[i].svc) : JsonResolves(i, "notok", data))
          => innerHTML'[inv[i].c] = ErrorHtml(inv[i].svc)]_vars

\* C9: a patch script calls writeFileSync exactly when both markers were
\* found; otherwise the file is as it was read and the only output is
\* 'Could not find function boundaries'.
C9_WriteOnlyWhenBothFound ==
    script # "none" =>
        /\ wrote <=> (functionStart # -1 /\ functionEnd # -1)
        /\ ~(functionStart # -1 /\ functionEnd # -1) =>
              /\ file = content
              /\ console = <<NotFoundMessage>>

C9_Witness ==
    /\ script # "none"
    /\ functionStart # -1
    /\ functionEnd = -1
    /\ file = content
    /\ console = <<NotFoundMessage>>

\* C10 (as claimed): the file written is the original with the text from the
\* start marker up to the end marker replaced by the new function, every
\* character before the start marker and from the end marker on kept once.
C10_ReplacesFunctionText ==
    wrote =>
        LET before == {i \in 0..(Len(content) - 1) : i < functionStart}
            after == {i \in 0..(Len(content) - 1) : i >= functionEnd}
        IN /\ before \cap after = {}
           /\ file = SubSeq(content, 1, functionStart) \o NewFunctionOf(script)
                        \o SubSeq(content, functionEnd + 1, Len(content))

\* C8: once a mandi is selected and the view of that mandi (its loading
\* text, its prices or its error) is displayed, the mandi dropdown, the crop
\* search box and the reset button are still in the page.
C8_ControlsRemainAfterSelection ==
    (/\ selectedMandi # Null
     /\ \/ pricesData.kind = "mandi" /\ pricesData.what = selectedMandi
        \/ pricesData.kind \in {"loading", "error", "nodata"} /\ pricesData.what = "mandi")
        => {"mandiSelect", "cropSearchInput", "resetButton"} \subseteq pricesData.controls

\* C11 (as claimed): a script that has just written the file and runs again
\* on that output writes the same text: the second run leaves the file as
\* the first run left it.
C11_SecondRunWritesSameFile ==
    [][\A s \in Scripts :
          (script = s /\ wrote /\ RunScript(s)) => file' = file]_vars

\* The forecast list of a weather response: forecast_7_days, or
\* data.forecast_7_days when that is absent, or none.
ForecastOf(data) ==
    IF data.forecast_7_days.has THEN data.forecast_7_days.val
    ELSE IF data.data_forecast_7_days.has THEN data.data_forecast_7_days.val
    ELSE <<>>

\* C12: whatever the length of the forecast list, a rendered weather view has
\* at most 7 day cards, they are the first 7 entries of the list in order,
\* and there is a forecast block exactly when the list is not empty.
C12_SevenDayForecast ==
    (response.svc = "weather" /\ rendered.kind = "data")
        => LET forecast == ForecastOf(response.data)
               shown == IF Len(forecast) < 7 THEN Len(forecast) ELSE 7
           IN /\ Len(rendered.cards) <= 7
              /\ Len(rendered.cards) = shown
              /\ \A i \in 1..shown : rendered.cards[i] = forecast[i]
              /\ rendered.extra = (IF forecast = <<>> THEN 0 ELSE 1)

C12_Witness ==
    /\ response.svc = "weather"
    /\ response.data # NullData
    /\ Len(ForecastOf(response.data)) > 7
    /\ rendered.kind = "data"
    /\ Len(rendered.cards) = 7

\* C13 (as claimed), for the all-crops view of the patched template: every
\* crop card shows the icon of its crop's trend: rising, falling or neutral.
C13_TrendIconsReflectTrend ==
    pricesData.kind = "all"
        => \A i \in 1..Len(pricesData.cards) :
              pricesData.cards[i] = TrendIcon(allCropsData.val.crops.val[i].trend)

\* The first of two optional lists that is present, or the empty list.
FirstPresent(a, b) == IF a.has THEN a.val ELSE IF b.has THEN b.val ELSE <<>>

\* The items of a response that its view has a card for.
ItemsShown(svc, data) ==
    CASE svc = "market-prices" -> FirstPresent(data.crops, data.top_crops)
      [] svc = "weather" ->
            SubSeq(ForecastOf(data), 1,
                   IF Len(ForecastOf(data)) < 7 THEN Len(ForecastOf(data)) ELSE 7)
      [] svc = "government-schemes" -> FirstPresent(data.schemes, Absent)
      [] svc = "crop-recommendations" -> FirstPresent(data.recommendations, Absent)

\* An item the template cannot be built for.
Broken(svc, item) == IF svc = "market-prices" THEN ~item.priced ELSE item = Null

\* C14: once a loader has processed a response, its container holds the error
\* text, the no-data text, or a complete rendering: one card for every item
\* to show, none of them broken, and (market prices) one tile per mandi.  A
\* response with a broken item never leaves a partly built view.
C14_AllOrNothing ==
    rendered # NotRendered
        => \/ rendered = ErrorHtml(response.svc)
           \/ rendered = NoDataHtml(response.svc)
           \/ /\ rendered.kind = "data"
              /\ rendered.svc = response.svc
              /\ response.data # NullData
              /\ LET items == ItemsShown(response.svc, response.data)
                 IN /\ Len(rendered.cards) = Len(items)
                    /\ \A i \in 1..Len(items) : ~Broken(response.svc, items[i])
              /\ response.svc = "market-prices"
                    => LET mandis == FirstPresent(response.data.nearby_mandis,
                                                  response.data.mp_nearby_mandis)
                       IN /\ rendered.extra = Len(mandis)
                          /\ \A i \in 1..Len(mandis) : mandis[i] # Null

C14_Witness ==
    /\ response.svc = "market-prices"
    /\ response.data # NullData
    /\ response.data.crops.has
    /\ Len(response.data.crops.val) > 1
    /\ response.data.crops.val[1].priced
    /\ ~response.data.crops.val[2].priced
    /\ rendered = ErrorHtml("market-prices")

\* A crop list is present and not empty.
NonEmpty(list) == list.has /\ list.val # <<>>

\* C15 (as claimed): unless building the markup fails, loadMarketPrices shows
\* the crop grid when data.crops or data.market_prices.top_crops is a
\* non-empty list, and the no-data text only when neither is.
C15_CropsFromEitherPath ==
    (response.svc = "market-prices" /\ rendered # NotRendered
        /\ rendered # ErrorHtml("market-prices"))
        => IF NonEmpty(response.data.crops) \/ NonEmpty(response.data.top_crops)
           THEN rendered.kind = "data"
           ELSE rendered = NoDataHtml("market-prices")

\* A parsed JSON object without items: no crops on either path, no schemes,
\* no recommendations, or no temperature on either path and no location.
NoItemsIn(svc, data) ==
    CASE svc = "market-prices" -> ~NonEmpty(data.crops) /\ ~NonEmpty(data.top_crops)
      [] svc = "weather" ->
            /\ data.location = ""
            /\ data.current_weather.has => data.current_weather.val.temperature = ""
            /\ data.data_current.has => data.data_current.val.temperature = ""
      [] svc = "government-schemes" -> ~NonEmpty(data.schemes)
      [] svc = "crop-recommendations" -> ~NonEmpty(data.recommendations)

\* C16 (as claimed): every parsed response without items, the body null
\* included, ends with the no-data text and not with the error text.
C16_NoItemsShowsNoData ==
    (/\ rendered # NotRendered
     /\ response.data = NullData \/ NoItemsIn(response.svc, response.data))
        => /\ rendered = NoDataHtml(response.svc)
           /\ rendered # ErrorHtml(response.svc)

\* C16 (amended): a parsed response that is a JSON object without items ends
\* with the service's no-data text, which is not its error text.
C16_ObjectWithoutItemsShowsNoData ==
    (/\ rendered # NotRendered
     /\ response.data # NullData
     /\ NoItemsIn(response.svc, response.data))
        => /\ rendered = NoDataHtml(response.svc)
           /\ rendered # ErrorHtml(response.svc)

C16_Witness ==
    /\ response.svc = "government-schemes"
    /\ response.data # NullData
    /\ response.data.schemes = Some(<<>>)
    /\ rendered = NoDataHtml("government-schemes")

\* The locations a request can come from: a call of updateLocation, or the
\* initial values.
KnownPlaces == Places \cup {Delhi}

\* The services whose URL has latitude and longitude beside the location.
WithCoordinates == {"market-prices", "weather"}

\* updateLocation started one load of each of the four services.
OneLoadOfEach ==
    last.op = "updateLocation"
        => /\ Len(Started) = 4
           /\ \A svc \in Services :
                 Cardinality({k \in DOMAIN Started : Started[k].svc = svc}) = 1
           /\ currentLocation.name = last.arg

\* C17 (as claimed): updateLocation starts one load of each service, and
\* every request carries the location, the latitude and the longitude of one
\* updateLocation call or of the initial values.
C17_RequestsCarryOneLocation ==
    /\ OneLoadOfEach
    /\ \A i \in DOMAIN inv :
          inv[i].fetches = 1 => \E p \in KnownPlaces : inv[i].req = p

\* C17 (amended): updateLocation starts one load of each service; every
\* request carries the location name of one updateLocation call or the
\* initial one, the market and weather requests carry the latitude and
\* longitude of that same call, and the schemes and recommendations requests
\* carry no coordinates.
C17_RequestsCarryOneCall ==
    /\ OneLoadOfEach
    /\ \A i \in DOMAIN inv :
          inv[i].fetches = 1
            => \E p \in KnownPlaces :
                  /\ inv[i].req.name = p.name
                  /\ IF inv[i].svc \in WithCoordinates
                     THEN inv[i].req.lat = p.lat /\ inv[i].req.lon = p.lon
                     ELSE inv[i].req.lat = Null /\ inv[i].req.lon = Null
    /\ \A k \in DOMAIN Started :
          (last.op = "updateLocation" /\ Started[k].fetches = 1)
            => Started[k].req.name = currentLocation.name

C17_Witness ==
    /\ last.op = "updateLocation"
    /\ \E k \in DOMAIN Started :
          /\ Started[k].svc = "weather"
          /\ Started[k].fetches = 1
          /\ Started[k].req = Pune
    /\ \E i \in DOMAIN inv : inv[i].fetches = 1 /\ inv[i].req.name = Delhi.name

\* The initial automatic load ran after the service cards were set up and
\* started each of the four loaders once.
AutoLoadOnceEach ==
    last.op = "autoLoad"
        => /\ page = "loaded"
           /\ Len(Started) = 4
           /\ \A svc \in Services :
                 Cardinality({k \in DOMAIN Started : Started[k].svc = svc}) = 1

C19_LatestLoadWins ==
    Settled
        => \A c \in dom :
              innerHTML[c].kind = "data"
                  => innerHTML[c].req = RequestOf(ServiceOfContainer(c), currentLocation)

====
